---- MODULE Spec2Model ----
(***************************************************************************)
(* rusty_nn: scalar reverse-mode automatic differentiation (src/lib.rs).   *)
(*                                                                         *)
(* A Val is a node of an expression graph.  Nodes live in one store and    *)
(* are named by their position in it (a handle), so that a node can be an  *)
(* operand of several parents and be read after it has been used, as the   *)
(* test prp reads x1.grad after x1 * w1.                                   *)
(*                                                                         *)
(* f64 values are modelled by integers: on the small integers used here    *)
(* +, -, * and unary - are exact in f64.  The closed form of tanh is exact *)
(* at 0 only ((e^0 - 1) / (e^0 + 1) = 0 / 2), so tanh is applied to nodes  *)
(* whose data is 0.                                                        *)
(*                                                                         *)
(* The constructors (Val::new, tanh, neg, add, sub, mul) and the closure   *)
(* that add stores are in src/lib.rs.  The backward pass itself (ordering, *)
(* seeding, dispatch, the rules of Sub, Mul and Tanh) is called by the     *)
(* test prp but is not in src/lib.rs; it is modelled from spec.md 4.1/4.2. *)
(***************************************************************************)
EXTENDS Integers, Sequences, FiniteSets, TLC

VARIABLES nodes, pc, out, order, idx, g0, last, calls, negs

vars == <<nodes, pc, out, order, idx, g0, last, calls, negs>>

\* ---------------------------------------------------------------- bounds
MaxNodes == 4
MaxCalls == 2
MaxNegs  == 1
LeafVals == {0, 2}

\* ------------------------------------------------------------ Operations
OpAdd  == "Add"
OpSub  == "Sub"
OpMul  == "Mul"
OpTanh == "Tanh"
OpNon  == "Non"

Operations == {OpAdd, OpSub, OpMul, OpTanh, OpNon}

Ids == 1..Len(nodes)

\* ------------------------------------------------------------------- Val
\* Val::new: data d, grad 0.0, no prev, op Non, backward None (cap empty).
ValNew(d) == [data |-> d, grad |-> 0, prev |-> <<>>, op |-> OpNon, cap |-> <<>>]

\* set_op
SetOp(v, o) == [v EXCEPT !.op = o]

\* the closed form of tanh, ((2x).exp() - 1) / ((2x).exp() + 1), where it is
\* exact: exp(0) = 1
Exp2(x) == CASE x = 0 -> 1
TanhVal(x) == (Exp2(x) - 1) \div (Exp2(x) + 1)

\* Val::tanh: result = new(t); prev.push(self); result.grad = 1.0; op Tanh
ValTanh(ns, a) ==
    LET r0 == ValNew(TanhVal(ns[a].data))
        r1 == [r0 EXCEPT !.prev = Append(r0.prev, a)]
        r2 == [r1 EXCEPT !.grad = 1]
    IN  SetOp(r2, OpTanh)

\* ops::Neg: self.data = -self.data; return self (the same node)
ValNeg(ns, a) == [ns[a] EXCEPT !.data = -ns[a].data]

\* ops::Add: result = new(self.data + rhs.data); push self, rhs; op Add.
\* cap stands for what the stored closure has captured (the operand values
\* at creation, spec.md 3).
ValAdd(ns, a, b) ==
    LET r0 == ValNew(ns[a].data + ns[b].data)
        r1 == [r0 EXCEPT !.prev = Append(Append(r0.prev, a), b)]
    IN  [SetOp(r1, OpAdd) EXCEPT !.cap = <<ns[a].data, ns[b].data>>]

\* ops::Sub
ValSub(ns, a, b) ==
    LET r0 == ValNew(ns[a].data - ns[b].data)
        r1 == [r0 EXCEPT !.prev = Append(Append(r0.prev, a), b)]
    IN  [SetOp(r1, OpSub) EXCEPT !.cap = <<ns[a].data, ns[b].data>>]

\* mul as a copy of add that kept the +
MutValMulPlus(ns, a, b) ==
    LET r0 == ValNew(ns[a].data + ns[b].data)
        r1 == [r0 EXCEPT !.prev = Append(Append(r0.prev, a), b)]
    IN  [SetOp(r1, OpMul) EXCEPT !.cap = <<ns[a].data, ns[b].data>>]

\* ops::Mul
ValMul(ns, a, b) ==
    LET r0 == ValNew(ns[a].data * ns[b].data)
        r1 == [r0 EXCEPT !.prev = Append(Append(r0.prev, a), b)]
    IN  [SetOp(r1, OpMul) EXCEPT !.cap = <<ns[a].data, ns[b].data>>]

\* ------------------------------------------------------ local rules
\* the closure with its first assignment reversed: result.grad = self.grad
MutAddBackwardSwap(ns, o) ==
    LET a  == ns[o].prev[1]
        b  == ns[o].prev[2]
        n1 == [ns EXCEPT ![o].grad = ns[a].grad]
    IN  [n1 EXCEPT ![b].grad = n1[o].grad]

\* the closure with its second assignment reversed: result.grad = rhs.grad
MutAddBackwardRhs(ns, o) ==
    LET a  == ns[o].prev[1]
        b  == ns[o].prev[2]
        n1 == [ns EXCEPT ![a].grad = ns[o].grad]
    IN  [n1 EXCEPT ![o].grad = n1[b].grad]

\* the closure writing the operand's data instead of its grad
MutAddBackwardData(ns, o) ==
    LET a  == ns[o].prev[1]
        b  == ns[o].prev[2]
        n1 == [ns EXCEPT ![a].data = ns[o].grad]
    IN  [n1 EXCEPT ![b].grad = n1[o].grad]

\* the closure of ops::Add (lib.rs 73-76):
\*     self.grad = result.grad;  rhs.grad = result.grad;
\* Both are assignments.  add hands the closure to set_backward of self; it
\* is taken here as the rule of the Add node o (result), the node whose
\* gradient it reads and whose operands it writes.
AddBackward(ns, o) ==
    LET a  == ns[o].prev[1]
        b  == ns[o].prev[2]
        n1 == [ns EXCEPT ![a].grad = ns[o].grad]
    IN  [n1 EXCEPT ![b].grad = n1[o].grad]

\* spec.md 4.1: a.gradient += o.gradient; b.gradient += -o.gradient
SubBackward(ns, o) ==
    LET a  == ns[o].prev[1]
        b  == ns[o].prev[2]
        n1 == [ns EXCEPT ![a].grad = @ + ns[o].grad]
    IN  [n1 EXCEPT ![b].grad = @ - n1[o].grad]

\* spec.md 4.1: a.gradient += b.value * o.gradient;
\*              b.gradient += a.value * o.gradient  (captured values)
MulBackward(ns, o) ==
    LET a  == ns[o].prev[1]
        b  == ns[o].prev[2]
        n1 == [ns EXCEPT ![a].grad = @ + ns[o].cap[2] * ns[o].grad]
    IN  [n1 EXCEPT ![b].grad = @ + n1[o].cap[1] * n1[o].grad]

\* spec.md 4.1: a.gradient += (1 - t*t) * o.gradient
TanhBackward(ns, o) ==
    LET a == ns[o].prev[1]
        t == ns[o].data
    IN  [ns EXCEPT ![a].grad = @ + (1 - t * t) * ns[o].grad]

\* spec.md 4.2 step 3: invoke the node's rule, selected by its tag
LocalBackward(ns, o) ==
    CASE ns[o].op = OpAdd  -> AddBackward(ns, o)
      [] ns[o].op = OpSub  -> SubBackward(ns, o)
      [] ns[o].op = OpMul  -> MulBackward(ns, o)
      [] ns[o].op = OpTanh -> TanhBackward(ns, o)
      [] OTHER             -> ns

\* ------------------------------------------------------ ordering
RECURSIVE Visit(_, _, _), VisitAll(_, _, _)

\* spec.md 4.2 step 1: depth-first along prev, visited by identity; a node
\* is placed in the order once all of its operands have been ordered, in
\* front of them, so that the order as produced starts with the output.
Visit(ns, n, st) ==
    IF n \in st.vis THEN st
    ELSE LET s1 == VisitAll(ns, ns[n].prev, [st EXCEPT !.vis = @ \cup {n}])
         IN  [s1 EXCEPT !.ord = <<n>> \o @]

VisitAll(ns, ps, st) ==
    IF ps = <<>> THEN st
    ELSE VisitAll(ns, Tail(ps), Visit(ns, Head(ps), st))

RECURSIVE Reverse(_)
Reverse(q) == IF q = <<>> THEN <<>> ELSE Append(Reverse(Tail(q)), Head(q))

\* the order with every node behind its operands, the output last
MutBuildTopoPostOrder(ns, o) ==
    Reverse(Visit(ns, o, [vis |-> {}, ord |-> <<>>]).ord)

BuildTopo(ns, o) == Visit(ns, o, [vis |-> {}, ord |-> <<>>]).ord

\* the seed added to the gradient instead of assigned
MutSeedAccumulate(ns, o) == [ns EXCEPT ![o].grad = @ + 1]

\* spec.md 4.2 step 2: set the output's gradient to 1.0
Seed(ns, o) == [ns EXCEPT ![o].grad = 1]

Grads(ns) == [i \in 1..Len(ns) |-> ns[i].grad]

\* ------------------------------------------------------------------ Init
Init ==
    /\ nodes = <<>>
    /\ pc    = "idle"
    /\ out   = 0
    /\ order = <<>>
    /\ idx   = 0
    /\ g0    = <<>>
    /\ last  = [op |-> "none", args |-> <<>>, ret |-> 0]
    /\ calls = 0
    /\ negs  = 0

\* out, order, idx and g0 belong to the latest backward call: its argument,
\* its locals and the gradients it found.  They are kept until the next call
\* of any operation begins.
Frame ==
    /\ out'   = 0
    /\ order' = <<>>
    /\ idx'   = 0
    /\ g0'    = <<>>
    /\ UNCHANGED <<pc, calls>>

\* ------------------------------------------------------------ operations
New ==
    /\ pc = "idle"
    /\ Len(nodes) < MaxNodes
    /\ \E d \in LeafVals :
         /\ nodes' = Append(nodes, ValNew(d))
         /\ last'  = [op |-> "new", args |-> <<d>>, ret |-> Len(nodes) + 1]
    /\ Frame
    /\ UNCHANGED negs

Neg ==
    /\ pc = "idle"
    /\ negs < MaxNegs
    /\ negs' = negs + 1
    /\ \E a \in Ids :
         /\ nodes' = [nodes EXCEPT ![a] = ValNeg(nodes, a)]
         /\ last'  = [op |-> "neg", args |-> <<a>>, ret |-> a]
    /\ Frame

Add ==
    /\ pc = "idle"
    /\ Len(nodes) < MaxNodes
    /\ \E a \in Ids, b \in Ids :
         /\ nodes' = Append(nodes, ValAdd(nodes, a, b))
         /\ last'  = [op |-> "add", args |-> <<a, b>>, ret |-> Len(nodes) + 1]
    /\ Frame
    /\ UNCHANGED negs

Sub ==
    /\ pc = "idle"
    /\ Len(nodes) < MaxNodes
    /\ \E a \in Ids, b \in Ids :
         /\ nodes' = Append(nodes, ValSub(nodes, a, b))
         /\ last'  = [op |-> "sub", args |-> <<a, b>>, ret |-> Len(nodes) + 1]
    /\ Frame
    /\ UNCHANGED negs

Mul ==
    /\ pc = "idle"
    /\ Len(nodes) < MaxNodes
    /\ \E a \in Ids, b \in Ids :
         /\ nodes' = Append(nodes, ValMul(nodes, a, b))
         /\ last'  = [op |-> "mul", args |-> <<a, b>>, ret |-> Len(nodes) + 1]
    /\ Frame
    /\ UNCHANGED negs

Tanh ==
    /\ pc = "idle"
    /\ Len(nodes) < MaxNodes
    /\ \E a \in Ids :
         /\ nodes[a].data = 0
         /\ nodes' = Append(nodes, ValTanh(nodes, a))
         /\ last'  = [op |-> "tanh", args |-> <<a>>, ret |-> Len(nodes) + 1]
    /\ Frame
    /\ UNCHANGED negs

\* backward(output), steps 1 and 2: order the graph, seed the output
Backward ==
    /\ pc = "idle"
    /\ calls < MaxCalls
    /\ \E o \in Ids :
         /\ order' = BuildTopo(nodes, o)
         /\ g0'    = Grads(nodes)
         /\ nodes' = Seed(nodes, o)
         /\ out'   = o
         /\ last'  = [op |-> "backward", args |-> <<o>>,
                      ret |-> IF last.op = "backward" /\ out = o THEN last.ret + 1 ELSE 1]
    /\ idx'   = 0
    /\ pc'    = "prop"
    /\ calls' = calls + 1
    /\ UNCHANGED negs

\* backward(output), step 3: the next node of the order fires its rule
Propagate ==
    /\ pc = "prop"
    /\ idx < Len(order)
    /\ nodes' = LocalBackward(nodes, order[idx + 1])
    /\ idx'   = idx + 1
    /\ pc'    = IF idx + 1 = Len(order) THEN "idle" ELSE "prop"
    /\ UNCHANGED <<out, order, g0, last, calls, negs>>

Next == New \/ Neg \/ Add \/ Sub \/ Mul \/ Tanh \/ Backward \/ Propagate

Spec == Init /\ [][Next]_vars


\* ------------------------------------------------------ graph notions
Range(q) == {q[i] : i \in 1..Len(q)}

RECURSIVE ReachIn(_, _)
\* the nodes reachable from o along prev, o included
ReachIn(ns, o) == {o} \cup UNION {ReachIn(ns, p) : p \in Range(ns[o].prev)}

Reach(o) == ReachIn(nodes, o)

\* local derivative of node p with respect to its k-th operand
Local(p, k) ==
    CASE nodes[p].op = OpAdd  -> 1
      [] nodes[p].op = OpSub  -> IF k = 1 THEN 1 ELSE -1
      [] nodes[p].op = OpMul  -> nodes[nodes[p].prev[3 - k]].data
      [] nodes[p].op = OpTanh -> 1 - nodes[p].data * nodes[p].data
      [] OTHER                -> 0

RECURSIVE Deriv(_, _), DerivFrom(_, _, _)
\* d o.value / d n.value: the sum over the operand paths from o to n of the
\* product of the local derivatives along the path
Deriv(o, n) == IF o = n THEN 1 ELSE DerivFrom(o, n, Len(nodes[o].prev))

DerivFrom(o, n, k) ==
    IF k = 0 THEN 0
    ELSE DerivFrom(o, n, k - 1) + Local(o, k) * Deriv(nodes[o].prev[k], n)

\* what parent p pushes onto its operand a, given p's gradient
Pushed(p, a) ==
    (IF nodes[p].prev[1] = a THEN Local(p, 1) * nodes[p].grad ELSE 0)
    + (IF Len(nodes[p].prev) = 2 /\ nodes[p].prev[2] = a
       THEN Local(p, 2) * nodes[p].grad ELSE 0)

RECURSIVE SumPushed(_, _)
\* the sum of what the parents in S push onto a
SumPushed(S, a) ==
    IF S = {} THEN 0
    ELSE LET p == CHOOSE x \in S : TRUE
         IN  Pushed(p, a) + SumPushed(S \ {p}, a)

Parents(a) == {p \in Reach(out) : a \in Range(nodes[p].prev)}

\* a backward pass has just completed, and nothing was done since
PassDone == pc = "idle" /\ last.op = "backward"

\* every node reachable from the output had gradient 0 when the pass began
ZeroBefore == \A n \in Reach(out) : g0[n] = 0

PosIn(q, n) == CHOOSE i \in 1..Len(q) : q[i] = n

\* ---------------------------------------------------------------- C1
\* C1: after one backward(output) on a graph whose gradients were all 0.0,
\* every node reachable from the output has gradient equal to the exact
\* partial derivative of output.value with respect to its value (the sum
\* over the operand paths of the products of the local derivatives), and
\* the output has gradient 1.0.
C1_ExactDerivative ==
    (PassDone /\ ZeroBefore) =>
        /\ nodes[out].grad = 1
        /\ \A n \in Reach(out) : nodes[n].grad = Deriv(out, n)

\* ---------------------------------------------------------------- C2
\* C2: a node that is an operand of two different parents that both feed
\* the output ends the pass with the sum of what both parents pushed, not
\* the contribution of one of them and not the last one written.
C2_SharedOperandSum ==
    (PassDone /\ ZeroBefore) =>
        \A a \in Reach(out) :
            Cardinality(Parents(a)) >= 2 =>
                nodes[a].grad = SumPushed(Parents(a), a)

\* ---------------------------------------------------------------- C3
\* the second of two backward calls in a row on the same output is done
TwiceDone == PassDone /\ last.ret = 2

\* C3 as stated: two backward calls in a row on the same output leave every
\* reachable node, the output included, with twice the gradient it had
\* after the first call.
C3_TwiceDoubles ==
    TwiceDone => \A n \in Reach(out) : nodes[n].grad = 2 * g0[n]

\* C3 amended: two backward calls in a row on the same output leave the
\* output with gradient exactly 1.0, the gradient it had after the first
\* call: the seed assigns, it does not accumulate.
C3_SecondPassReseeds ==
    TwiceDone => (nodes[out].grad = 1 /\ g0[out] = 1)

\* the second pass in a row is done on an output that has operands
C3_Witness ==
    TwiceDone /\ nodes[out].prev # <<>> /\ Cardinality(Reach(out)) >= 3

\* ---------------------------------------------------------------- C4
\* C4: as long as backward has not been called, every existing node, the one
\* a constructor has just returned included, has gradient exactly 0.0.
C4_ZeroBeforeBackward ==
    calls = 0 => \A i \in Ids : nodes[i].grad = 0

\* ---------------------------------------------------------------- C5
\* a constructor call is a step from idle to idle; last' names it
Constructed(ops) == pc = "idle" /\ pc' = "idle" /\ last'.op \in ops

TagOf(name) ==
    CASE name = "add"  -> OpAdd
      [] name = "sub"  -> OpSub
      [] name = "mul"  -> OpMul
      [] name = "tanh" -> OpTanh
      [] name = "neg"  -> "Neg"
      [] OTHER         -> OpNon

\* C5: every operation constructor (neg, add, sub, mul, tanh) leaves the
\* value of every existing node unchanged and returns a new node, distinct
\* from its operands, whose prev holds exactly the inputs in left-then-right
\* order and whose tag names the operation.
C5_ConstructorFrame ==
    [][Constructed({"neg", "add", "sub", "mul", "tanh"}) =>
        /\ Len(nodes') = Len(nodes) + 1
        /\ \A i \in Ids : nodes'[i].data = nodes[i].data
        /\ last'.ret = Len(nodes')
        /\ last'.ret \notin Range(last'.args)
        /\ nodes'[last'.ret].prev = last'.args
        /\ nodes'[last'.ret].op = TagOf(last'.op)]_vars

\* ---------------------------------------------------------------- C6
\* C6: the node returned by add, sub, mul and neg has value a+b, a-b, a*b
\* and -a of the operand values a and b, for operands that are leaves or
\* composite nodes alike; a leaf created with x has value x, no operands and
\* the tag Non.
C6_ForwardValues ==
    [][Constructed({"new", "neg", "add", "sub", "mul"}) =>
        LET r == nodes'[last'.ret]
            x == last'.args[1]
            y == last'.args[Len(last'.args)]
        IN  CASE last'.op = "new" ->
                    r.data = x /\ r.prev = <<>> /\ r.op = OpNon
              [] last'.op = "neg" -> r.data = -nodes[x].data
              [] last'.op = "add" ->
                    /\ r.data = nodes[x].data + nodes[y].data
                    /\ r.data = nodes'[r.prev[1]].data + nodes'[r.prev[2]].data
              [] last'.op = "sub" ->
                    /\ r.data = nodes[x].data - nodes[y].data
                    /\ r.data = nodes'[r.prev[1]].data - nodes'[r.prev[2]].data
              [] last'.op = "mul" ->
                    /\ r.data = nodes[x].data * nodes[y].data
                    /\ r.data = nodes'[r.prev[1]].data * nodes'[r.prev[2]].data]_vars

\* mul has just returned the product of two different nonzero operands, one
\* of them a composite node
C6_Witness ==
    /\ pc = "idle"
    /\ last.op = "mul"
    /\ nodes[last.ret].data # 0
    /\ last.args[1] # last.args[2]
    /\ \E k \in 1..2 : nodes[last.args[k]].prev # <<>>

\* ---------------------------------------------------------------- C7
\* C7: no step of backward changes a node's data, prev or op, nor the number
\* of nodes, nor the gradient of a node that the output does not reach.
C7_BackwardFrame ==
    [][(pc = "prop" \/ pc' = "prop") =>
        /\ Len(nodes') = Len(nodes)
        /\ \A i \in Ids :
             /\ nodes'[i].data = nodes[i].data
             /\ nodes'[i].prev = nodes[i].prev
             /\ nodes'[i].op   = nodes[i].op
             /\ (i \notin ReachIn(nodes, out') => nodes'[i].grad = nodes[i].grad)]_vars

\* a pass over a graph with operands is done, and a node outside of it holds
\* a gradient from before
C7_Witness ==
    /\ PassDone
    /\ nodes[out].prev # <<>>
    /\ \E i \in Ids : i \notin Reach(out) /\ nodes[i].grad # 0

\* ---------------------------------------------------------------- C8
\* every operand of a node was built before the node: the graph is acyclic
Acyclic == \A i \in Ids : \A p \in Range(nodes[i].prev) : p \in 1..(i - 1)

\* the pass that ends in this step was run on a leaf
LeafPassEnds == pc = "prop" /\ pc' = "idle" /\ nodes[out].prev = <<>>

\* C8: every graph the constructors build is acyclic; a backward pass in
\* progress can always fire the next node of its order, each step fires one
\* more node of an order no longer than the number of nodes, and the pass
\* ends with the last of them; a pass on a leaf sets the leaf's gradient to
\* 1.0 and changes no other node.
C8_Terminates ==
    /\ [](/\ Acyclic
          /\ pc = "prop" => /\ idx < Len(order)
                            /\ Len(order) <= Len(nodes)
                            /\ ENABLED Propagate)
    /\ [][pc = "prop" => /\ idx' = idx + 1
                         /\ order' = order
                         /\ (pc' = "idle") = (idx' = Len(order))]_vars
    /\ [][LeafPassEnds => /\ nodes' = [nodes EXCEPT ![out].grad = 1]
                          /\ Grads(nodes') = [g0 EXCEPT ![out] = 1]]_vars

\* a pass is done on a graph in which a node is reached by several paths
C8_Witness ==
    /\ PassDone
    /\ \E p \in Reach(out), q \in Reach(out) :
         /\ p # q
         /\ Range(nodes[p].prev) \cap Range(nodes[q].prev) # {}

Fired == SubSeq(order, 1, idx)

\* C10: in one pass each reachable node's rule fires exactly once, only
\* after the rule of every reachable node that lists it as an operand, and
\* the gradient a rule reads is not changed later in the pass.
C10_FireOnceParentsFirst ==
    /\ [](out # 0 =>
            /\ \A i \in 1..idx, j \in 1..idx : Fired[i] = Fired[j] => i = j
            /\ (pc = "idle" => Range(Fired) = Reach(out))
            /\ \A i \in 1..idx :
                 \A p \in Reach(out) :
                     Fired[i] \in Range(nodes[p].prev) =>
                         \E j \in 1..(i - 1) : Fired[j] = p)
    /\ [][pc = "prop" =>
            \A i \in 1..(idx + 1) :
                nodes'[order[i]].grad = nodes[order[i]].grad]_vars

\* a pass is done in which a node with two parents fired after both
C10_Witness ==
    /\ PassDone
    /\ \E a \in Reach(out) :
         /\ Cardinality(Parents(a)) >= 2
         /\ nodes[a].grad # 0

====
